---- MODULE Spec2Model ----
(***************************************************************************)
(* Model of the msscmp soundbank decoder (src/msscmp.py).                  *)
(*                                                                         *)
(* The stream is a finite sequence of bytes (0..255) with a cursor `pos`   *)
(* (stream.tell()).  Strings are sequences of byte codes.  Every reader    *)
(* primitive is an operator from (stream, position, ...) to a result       *)
(* record [ok, err, val, pos]: `ok` tells whether the call returned, `err` *)
(* names the exception raised otherwise, `val` is the returned value and   *)
(* `pos` the cursor the call leaves behind.                                *)
(***************************************************************************)
EXTENDS Integers, Sequences, FiniteSets, TLC

VARIABLES stream, pos, pc, endian, header, events, tbl, idx, err,
          locatePos, rowsRead, decoded, names, lk

vars == <<stream, pos, pc, endian, header, events, tbl, idx, err,
          locatePos, rowsRead, decoded, names, lk>>

(***************************************************************************)
(* Bounds of the model.                                                    *)
(***************************************************************************)
MaxEvents == 2
MaxSources == 2
MaxStreamLen == 3

(***************************************************************************)
(* Byte codes the program names.                                           *)
(***************************************************************************)
NUL == 0
SLASH == 47
STAR == 42
DOT == 46
SEMI == 59
HeaderNameOffset == 56

Min(a, b) == IF a < b THEN a ELSE b

(***************************************************************************)
(* The({ body : x \in {e} }) reads "let x be e in body", with e evaluated   *)
(* once before body is.                                                    *)
(***************************************************************************)
The(S) == CHOOSE x \in S : TRUE

Ok(v, p) == [ok |-> TRUE, err |-> "", val |-> v, pos |-> p]
Raise(e, p) == [ok |-> FALSE, err |-> e, val |-> <<>>, pos |-> p]

(***************************************************************************)
(* struct.unpack of one 32-bit signed integer, '>' big or '<' little       *)
(* endian, and its inverse (used to lay out the input containers).         *)
(***************************************************************************)
DecodeInt(b, e) ==
    LET hi == IF e = ">" THEN b[1] ELSE b[4]
        m1 == IF e = ">" THEN b[2] ELSE b[3]
        m2 == IF e = ">" THEN b[3] ELSE b[2]
        lo == IF e = ">" THEN b[4] ELSE b[1]
        top == IF hi >= 128 THEN hi - 256 ELSE hi
    IN  top * 16777216 + m1 * 65536 + m2 * 256 + lo

EncodeInt(v, e) ==
    LET rest == v % 16777216
        hi == (v \div 16777216) % 256
        m1 == rest \div 65536
        m2 == (rest \div 256) % 256
        lo == rest % 256
    IN  IF e = ">" THEN <<hi, m1, m2, lo>> ELSE <<lo, m2, m1, hi>>

EncodeInts(vs, e) ==
    [k \in 1..(4 * Len(vs)) |-> EncodeInt(vs[((k - 1) \div 4) + 1], e)[((k - 1) % 4) + 1]]

(***************************************************************************)
(* BufferedReader.read(n): the bytes from the cursor, at most n, fewer at  *)
(* end of stream; the cursor moves past what was read.  n = -1 reads to    *)
(* the end of the stream, any other negative n raises ValueError.          *)
(***************************************************************************)
StreamRead(s, p, n) ==
    IF n < -1 THEN Raise("ValueError", p)
    ELSE IF p >= Len(s) THEN Ok(<<>>, p)
    ELSE LET last == IF n = -1 THEN Len(s) ELSE Min(p + n, Len(s))
         IN  Ok(SubSeq(s, p + 1, last), last)

(***************************************************************************)
(* BufferedReader.seek(offset, SEEK_SET): a negative offset raises and     *)
(* leaves the cursor alone; any other offset, past the end too, is taken.  *)
(***************************************************************************)
StreamSeek(p, offset) ==
    IF offset < 0 THEN Raise("OSError", p) ELSE Ok(<<>>, offset)

(***************************************************************************)
(* BufferedDataReader.readInts(count): read count*4 bytes and unpack them; *)
(* a short read makes struct.unpack raise.                                 *)
(***************************************************************************)
ReadInts(s, p, e, count) ==
    The({ IF Len(r.val) /= count * 4 THEN Raise("struct.error", r.pos)
          ELSE Ok([k \in 1..count |-> DecodeInt(SubSeq(r.val, 4 * k - 3, 4 * k), e)], r.pos)
          : r \in {StreamRead(s, p, count * 4)} })

ReadInt(s, p, e) ==
    The({ IF r.ok THEN Ok(r.val[1], r.pos) ELSE r : r \in {ReadInts(s, p, e, 1)} })

(***************************************************************************)
(* One turn of readUntil's loop at cursor p.  peek(1)[:1] is empty at end  *)
(* of stream, so it differs from the stopper there; read(1) then returns   *)
(* an empty bytes object and indexing it with [0] raises IndexError.       *)
(* peek does not move the cursor: the stopper itself is never consumed.    *)
(***************************************************************************)
AtStopper(s, p, stopper) == p < Len(s) /\ s[p + 1] = stopper

AppendByteLenient(s, p, result) ==
    IF p >= Len(s) THEN Ok(result, p) ELSE Ok(Append(result, s[p + 1]), p + 1)

AppendByte(s, p, result) ==
    IF p >= Len(s) THEN Raise("IndexError", p) ELSE Ok(Append(result, s[p + 1]), p + 1)

RECURSIVE ReadUntil(_, _, _, _)
ReadUntil(s, p, stopper, result) ==
    IF AtStopper(s, p, stopper) THEN Ok(result, p)
    ELSE The({ IF r.ok THEN ReadUntil(s, r.pos, stopper, r.val) ELSE r
               : r \in {AppendByte(s, p, result)} })

(***************************************************************************)
(* readAt(stream, offset, func): remember the cursor, seek, call, seek     *)
(* back.  `res` is func's result when run at cursor `offset`.  There is no *)
(* try/finally: when the seek or func raises, the cursor stays where the   *)
(* failing call left it.                                                   *)
(***************************************************************************)
ReadAtNoRestore(origin, offset, res) ==
    IF ~StreamSeek(origin, offset).ok THEN StreamSeek(origin, offset) ELSE res

ReadAt(origin, offset, res) ==
    IF ~StreamSeek(origin, offset).ok THEN StreamSeek(origin, offset)
    ELSE IF ~res.ok THEN res
    ELSE [res EXCEPT !.pos = StreamSeek(res.pos, origin).pos]

(***************************************************************************)
(* bytes.decode("ASCII"): fails on any byte above 127.                     *)
(***************************************************************************)
IsAscii(b) == \A k \in 1..Len(b) : b[k] < 128

DecodeAscii(r) ==
    IF ~r.ok THEN r
    ELSE IF IsAscii(r.val) THEN r ELSE Raise("UnicodeDecodeError", r.pos)

ReadStringAt(s, p, offset) ==
    The({ DecodeAscii(r) : r \in {ReadAt(p, offset, ReadUntil(s, offset, NUL, <<>>))} })

ReadStringConsuming(s, p) ==
    The({ IF r.ok /\ IsAscii(r.val) THEN Ok(r.val, r.pos + 1) ELSE DecodeAscii(r)
          : r \in {ReadUntil(s, p, NUL, <<>>)} })

ReadString(s, p) == ReadStringAt(s, p, p)

(***************************************************************************)
(* os.path.dirname (posixpath): everything up to the last '/', with the    *)
(* trailing slashes of that head stripped unless the head is all slashes.  *)
(***************************************************************************)
LastIndexOf(p, c) ==
    LET hits == {k \in 1..Len(p) : p[k] = c}
    IN  IF hits = {} THEN 0 ELSE CHOOSE k \in hits : \A j \in hits : j <= k

RStrip(p, c) ==
    SubSeq(p, 1, The({ IF keep = {} THEN 0 ELSE CHOOSE k \in keep : \A j \in keep : j <= k
                       : keep \in {{k \in 1..Len(p) : p[k] /= c}} }))

Dirname(p) ==
    LET head == SubSeq(p, 1, LastIndexOf(p, SLASH))
    IN  IF head /= <<>> /\ (\E k \in 1..Len(head) : head[k] /= SLASH)
        THEN RStrip(head, SLASH) ELSE head

(***************************************************************************)
(* str.split(sep): the pieces between the separators, in order; a string   *)
(* without the separator is its own single piece.                          *)
(***************************************************************************)
FirstIndexOf(p, c) ==
    LET hits == {k \in 1..Len(p) : p[k] = c}
    IN  IF hits = {} THEN 0 ELSE CHOOSE k \in hits : \A j \in hits : k <= j

RECURSIVE Split(_, _)
Split(p, c) ==
    The({ IF k = 0 THEN <<p>>
          ELSE The({ <<SubSeq(p, 1, k - 1)>> \o Split(tail, c)
                     : tail \in {SubSeq(p, k + 1, Len(p))} })
          : k \in {FirstIndexOf(p, c)} })

(***************************************************************************)
(* int(text): surrounding whitespace is dropped, one sign is allowed, the  *)
(* rest must be decimal digits, single underscores between digits allowed; *)
(* anything else raises ValueError.                                        *)
(***************************************************************************)
IsSpace(c) == c \in {9, 10, 11, 12, 13, 32}
IsDigit(c) == c >= 48 /\ c <= 57

StripSpace(p) ==
    The({ IF keep = {} THEN <<>>
          ELSE SubSeq(p, CHOOSE k \in keep : \A j \in keep : k <= j,
                         CHOOSE k \in keep : \A j \in keep : j <= k)
          : keep \in {{k \in 1..Len(p) : ~IsSpace(p[k])}} })

DigitsValue(p) ==
    LET f[k \in 0..Len(p)] ==
            IF k = 0 THEN 0
            ELSE IF p[k] = 95 THEN f[k - 1]
            ELSE 10 * f[k - 1] + (p[k] - 48)
    IN  f[Len(p)]

WellFormedDigits(body) ==
    /\ body /= <<>>
    /\ IsDigit(body[1]) /\ IsDigit(body[Len(body)])
    /\ \A k \in 1..Len(body) : IsDigit(body[k]) \/ body[k] = 95
    /\ \A k \in 1..(Len(body) - 1) : ~(body[k] = 95 /\ body[k + 1] = 95)

ParseInt(text) ==
    The({ The({ IF ~WellFormedDigits(body) THEN Raise("ValueError", 0)
                ELSE IF t[1] = 45 THEN Ok(0 - DigitsValue(body), 0)
                ELSE Ok(DigitsValue(body), 0)
                : body \in {IF t /= <<>> /\ t[1] \in {43, 45} THEN Tail(t) ELSE t} })
          : t \in {StripSpace(text)} })

(***************************************************************************)
(* int(file_name.split('*')[-1].rsplit('.')[0]): the last '*' piece, cut   *)
(* at its first '.', read as a decimal number.                             *)
(***************************************************************************)
DataOffsetOf(file_name) ==
    The({ ParseInt(Split(pieces[Len(pieces)], DOT)[1])
          : pieces \in {Split(file_name, STAR)} })

(***************************************************************************)
(* readBankSource(reader, source_path_offset), entered with the cursor at  *)
(* current_offset.  The result carries, besides the source or the          *)
(* exception, `calls`: how many reader calls the function had started      *)
(* when it ended, and for the integrity failure the two offsets of its     *)
(* message.  The thirteen fields after the file name are read one int at a *)
(* time (one of them through readFloat, which consumes four bytes alike).  *)
(***************************************************************************)
RecRaise(e, p, calls, expected, got) ==
    [ok |-> FALSE, err |-> e, val |-> <<>>, pos |-> p,
     calls |-> calls, expected |-> expected, got |-> got]

RECURSIVE ReadFields(_, _, _, _, _)
ReadFields(s, p, e, count, acc) ==
    IF count = 0 THEN Ok(acc, p)
    ELSE The({ IF r.ok THEN ReadFields(s, r.pos, e, count - 1, Append(acc, r.val))
               ELSE [r EXCEPT !.val = acc]
               : r \in {ReadInt(s, p, e)} })

OffsetMismatchIgnored(source_path_offset, recived_source_name_offset) == FALSE

OffsetMismatch(source_path_offset, recived_source_name_offset) ==
    source_path_offset /= recived_source_name_offset

BankSource(path_offset, path, file_name, file_size, sample_rate, data_offset, play_action, source_offset, data) ==
    [path_offset |-> path_offset, path |-> path, file_name |-> file_name,
     file_size |-> file_size, sample_rate |-> sample_rate,
     data_offset |-> data_offset, play_action |-> play_action,
     source_offset |-> source_offset, data |-> data]

ReadPayload(s, p, e, current_offset, source_path_offset, path_name, file_name, rest) ==
    The({ IF ~data_offset.ok THEN RecRaise(data_offset.err, p, 17, 0, 0)
          ELSE The({ IF ~data.ok THEN RecRaise(data.err, data.pos, 18, 0, 0)
                     ELSE [ok |-> TRUE, err |-> "", pos |-> data.pos,
                           calls |-> 18, expected |-> 0, got |-> 0,
                           val |-> BankSource(source_path_offset, path_name, file_name,
                                              rest[5], rest[4], data_offset.val,
                                              rest[2], current_offset, data.val)]
                     : data \in {ReadAt(p, data_offset.val,
                                        StreamRead(s, data_offset.val, rest[5]))} })
          : data_offset \in {DataOffsetOf(file_name)} })

ReadRecordFields(s, p, e, current_offset, source_path_offset, path_name) ==
    The({ IF ~rel.ok THEN RecRaise(rel.err, rel.pos, 3, 0, 0)
          ELSE The({ IF ~file_name.ok THEN RecRaise(file_name.err, file_name.pos, 4, 0, 0)
                     ELSE The({ IF ~rest.ok
                                THEN RecRaise(rest.err, rest.pos, 5 + Len(rest.val), 0, 0)
                                ELSE ReadPayload(s, rest.pos, e, current_offset,
                                                 source_path_offset, path_name,
                                                 file_name.val, rest.val)
                                : rest \in {ReadFields(s, file_name.pos, e, 13, <<>>)} })
                     : file_name \in {ReadStringAt(s, rel.pos, rel.val + current_offset)} })
          : rel \in {ReadInt(s, p, e)} })

ReadBankSource(s, current_offset, e, source_path_offset) ==
    The({ IF ~recived.ok THEN RecRaise(recived.err, recived.pos, 1, 0, 0)
          ELSE IF OffsetMismatch(source_path_offset, recived.val)
          THEN RecRaise("OffsetDifference", recived.pos, 1, source_path_offset, recived.val)
          ELSE The({ IF ~path_name.ok THEN RecRaise(path_name.err, path_name.pos, 2, 0, 0)
                     ELSE ReadRecordFields(s, path_name.pos, e, current_offset,
                                           source_path_offset, path_name.val)
                     : path_name \in {ReadStringAt(s, recived.pos, source_path_offset)} })
          : recived \in {ReadInt(s, current_offset, e)} })

(***************************************************************************)
(* decodeEventProperties and the BankEvent the event loop builds.          *)
(***************************************************************************)
DecodeEventProperties(raw_property_event_string) == Split(raw_property_event_string, SEMI)

BankEvent(key, name, raw) ==
    [key |-> key, name |-> name, raw_string_data_format |-> raw,
     properties |-> DecodeEventProperties(raw), sources |-> <<>>]

(***************************************************************************)
(* bankinfo.events is a dict, kept here as the sequence of its entries in  *)
(* insertion order, each with its key.  Assigning to a key that is present *)
(* replaces the value in place; the loop keys an event by the dirname of   *)
(* its name.                                                               *)
(***************************************************************************)
HasKey(evs, key) == \E k \in 1..Len(evs) : evs[k].key = key

KeyIndex(evs, key) == CHOOSE k \in 1..Len(evs) : evs[k].key = key

EventKey(event_name) == Dirname(event_name)

PutEvent(evs, ev) ==
    IF HasKey(evs, ev.key) THEN [evs EXCEPT ![KeyIndex(evs, ev.key)] = ev]
    ELSE Append(evs, ev)

LinkSource(evs, source) ==
    LET event_name == Dirname(source.path)
    IN  IF HasKey(evs, event_name)
        THEN [evs EXCEPT ![KeyIndex(evs, event_name)].sources = Append(@, source)]
        ELSE evs

(***************************************************************************)
(* The input containers.  A container is laid out as                       *)
(*   0    signature                  4    version, mem_usage, reserved     *)
(*   16   5 ints, 5 ints (tables)    56   bank name                        *)
(*   60   event table, then the strings, the source table, the source      *)
(*        records (15 fields of 4 bytes) and the payloads.                 *)
(* `fault` damages it in one way, so that every failure of the decoder     *)
(* has an input.                                                           *)
(***************************************************************************)
PayloadLen == 2

EventNames == { <<115, 102, 120>>, <<97, 47, 120>>, <<97, 47, 121>> }

SourcePaths == { <<115, 102, 120, 47, 98, 111, 111, 109>>, <<97, 47, 122>>,
                 <<98, 111, 111, 109>> }

Faults == { "none", "junk", "cutHeader", "cutName", "cutLocator", "cutEvents",
            "cutSources", "cutRecord", "cutPayload", "selfOffset", "bigSize",
            "allSize", "negSize", "nameEOF", "noTerminator", "badFileName",
            "negTable" }

SeqsUpTo(S, n) == UNION { [1..k -> S] : k \in 0..n }

Flatten(ss) ==
    LET f[k \in 0..Len(ss)] == IF k = 0 THEN <<>> ELSE f[k - 1] \o ss[k]
    IN  f[Len(ss)]

SumLens(ss, n) ==
    LET f[k \in 0..Len(ss)] == IF k = 0 THEN 0 ELSE f[k - 1] + Len(ss[k]) + 1
    IN  f[n]

Dec3(n) == <<48 + ((n \div 100) % 10), 48 + ((n \div 10) % 10), 48 + (n % 10)>>

Container(e, evs, srcs, fault) ==
    LET ne == Len(evs)
        ns == Len(srcs)
        evTab == 60
        detailsOff == evTab + 8 * ne
        nameBase == detailsOff + 4
        pathBase == nameBase + SumLens(evs, ne)
        fileBase == pathBase + SumLens(srcs, ns)
        srcTab == fileBase + 12 * ns
        recBase == srcTab + 8 * ns
        payBase == recBase + 60 * ns
        total == payBase + PayloadLen * ns
        nameOff(i) == IF fault = "nameEOF" /\ i = 1 THEN total + 3
                      ELSE IF fault = "noTerminator" /\ i = 1 THEN total - 1
                      ELSE nameBase + SumLens(evs, i - 1)
        pathOff(j) == pathBase + SumLens(srcs, j - 1)
        fileOff(j) == fileBase + 12 * (j - 1)
        recOff(j) == recBase + 60 * (j - 1)
        payOff(j) == payBase + PayloadLen * (j - 1)
        selfOff(j) == IF fault = "selfOffset" /\ j = 1 THEN pathOff(j) + 1 ELSE pathOff(j)
        size(j) == IF j > 1 THEN PayloadLen
                   ELSE IF fault = "bigSize" THEN PayloadLen + 1
                   ELSE IF fault = "allSize" THEN -1
                   ELSE IF fault = "negSize" THEN -2
                   ELSE PayloadLen
        digits(j) == IF fault = "badFileName" /\ j = 1 THEN <<122, 122, 122>>
                     ELSE Dec3(payOff(j))
        fileName(j) == <<120, STAR>> \o digits(j) \o <<DOT, 98, 105, 110, 107, 97>>
        sig == IF fault = "junk" THEN <<74, 85, 78, 75>>
               ELSE IF e = ">" THEN <<66, 65, 78, 75>> ELSE <<75, 78, 65, 66>>
        evStart == IF fault = "negTable" THEN -4 ELSE evTab
        head == sig \o EncodeInts(<<8, 64, 0>>, e)
                    \o EncodeInts(<<0, evStart, 0, 0, srcTab>>, e)
                    \o EncodeInts(<<0, ne, 0, 0, ns>>, e)
                    \o <<98, 107, NUL, NUL>>
        evRows == Flatten([i \in 1..ne |-> EncodeInts(<<nameOff(i), detailsOff>>, e)])
        strings == <<49, SEMI, 50, NUL>>
                    \o Flatten([i \in 1..ne |-> Append(evs[i], NUL)])
                    \o Flatten([j \in 1..ns |-> Append(srcs[j], NUL)])
                    \o Flatten([j \in 1..ns |-> Append(fileName(j), NUL)])
        srcRows == Flatten([j \in 1..ns |-> EncodeInts(<<pathOff(j), recOff(j)>>, e)])
        records == Flatten([j \in 1..ns |->
                      EncodeInts(<<selfOff(j), fileOff(j) - recOff(j), 0, 1, 0, 44100,
                                   size(j), 2, 0, 10, 0, 0, 0, 0, 0>>, e)])
        payloads == Flatten([j \in 1..ns |-> [k \in 1..PayloadLen |-> 16 * j + k]])
        whole == head \o evRows \o strings \o srcRows \o records \o payloads
        cut == CASE fault = "cutHeader" -> 10
                 [] fault = "cutName" -> 56
                 [] fault = "cutLocator" -> 40
                 [] fault = "cutEvents" -> evTab + 4
                 [] fault = "cutSources" -> srcTab + 4
                 [] fault = "cutRecord" -> recBase + 30
                 [] fault = "cutPayload" -> total - 1
                 [] OTHER -> total
    IN  IF fault = "noTerminator" THEN [whole EXCEPT ![total] = 7]
        ELSE SubSeq(whole, 1, Min(cut, total))

NoHeader == [set |-> FALSE]
NoTables == [event_table_start |-> 0, source_table_start |-> 0,
             event_count |-> 0, source_count |-> 0]
NoError == [kind |-> "", calls |-> 0, expected |-> 0, got |-> 0]
NoLookup == [origin |-> 0, offset |-> 0, result |-> <<>>]

Init ==
    /\ \E evs \in SeqsUpTo(EventNames, MaxEvents), srcs \in SeqsUpTo(SourcePaths, MaxSources) :
          \/ \E fault \in Faults : stream = Container(">", evs, srcs, fault)
          \/ stream = Container("<", evs, srcs, "none")
    /\ pos = 0
    /\ pc = "start"
    /\ endian = ""
    /\ header = NoHeader
    /\ events = <<>>
    /\ tbl = NoTables
    /\ idx = 0
    /\ err = NoError
    /\ locatePos = -1
    /\ rowsRead = <<>>
    /\ decoded = <<>>
    /\ names = <<>>
    /\ lk = NoLookup

(***************************************************************************)
(* The decoder: MsscmpParser.process, one action per stage and one per     *)
(* loop iteration.  An exception ends the run in pc = "failed" with the    *)
(* cursor and the model (header, events) as the raising call left them:    *)
(* process assigns into self.bankinfo as it goes and catches nothing.      *)
(***************************************************************************)
ErrorOf(r) ==
    [kind |-> r.err,
     calls |-> IF "calls" \in DOMAIN r THEN r.calls ELSE 0,
     expected |-> IF "expected" \in DOMAIN r THEN r.expected ELSE 0,
     got |-> IF "got" \in DOMAIN r THEN r.got ELSE 0]

ReadBankHeader(s, p, e) ==
    The({ IF ~ints.ok THEN ints
          ELSE The({ IF ~filename.ok THEN filename
                     ELSE The({ IF ~name.ok THEN name
                                ELSE Ok([set |-> TRUE, name |-> name.val,
                                         filename |-> filename.val,
                                         mem_usage |-> ints.val[2],
                                         version |-> ints.val[1]], name.pos)
                                : name \in {ReadStringAt(s, filename.pos, HeaderNameOffset)} })
                     : filename \in {ReadString(s, ints.pos)} })
          : ints \in {ReadInts(s, p, e, 3)} })

Signature ==
    /\ pc = "start"
    /\ \E signature \in {StreamRead(stream, pos, 4)} :
          /\ pos' = signature.pos
          /\ IF signature.val \notin {<<66, 65, 78, 75>>, <<75, 78, 65, 66>>}
             THEN /\ pc' = "failed"
                  /\ err' = [NoError EXCEPT !.kind = "NotSoundbank"]
                  /\ endian' = endian
             ELSE /\ pc' = "header"
                  /\ err' = err
                  /\ endian' = IF signature.val = <<75, 78, 65, 66>> THEN "<" ELSE ">"
    /\ UNCHANGED <<stream, header, events, tbl, idx, locatePos, rowsRead, decoded, names, lk>>

Header ==
    /\ pc = "header"
    /\ \E r \in {ReadBankHeader(stream, pos, endian)} :
          /\ pos' = r.pos
          /\ IF r.ok
             THEN pc' = "locate" /\ header' = r.val /\ err' = err
             ELSE pc' = "failed" /\ header' = header /\ err' = ErrorOf(r)
    /\ UNCHANGED <<stream, endian, events, tbl, idx, locatePos, rowsRead, decoded, names, lk>>

LocateTables(s, p, e) ==
    The({ IF ~starts.ok THEN starts
          ELSE The({ IF ~counts.ok THEN counts
                     ELSE The({ IF ~seek.ok THEN seek
                                ELSE Ok([event_table_start |-> starts.val[2],
                                         source_table_start |-> starts.val[5],
                                         event_count |-> counts.val[2],
                                         source_count |-> counts.val[5]], seek.pos)
                                : seek \in {IF counts.pos /= starts.val[2]
                                            THEN StreamSeek(counts.pos, starts.val[2])
                                            ELSE Ok(<<>>, counts.pos)} })
                     : counts \in {ReadInts(s, starts.pos, e, 5)} })
          : starts \in {ReadInts(s, p, e, 5)} })

Locate ==
    /\ pc = "locate"
    /\ locatePos' = pos
    /\ \E r \in {LocateTables(stream, pos, endian)} :
          /\ pos' = r.pos
          /\ IF r.ok THEN pc' = "events" /\ tbl' = r.val /\ err' = err
             ELSE pc' = "failed" /\ tbl' = tbl /\ err' = ErrorOf(r)
    /\ idx' = 0
    /\ UNCHANGED <<stream, endian, header, events, rowsRead, decoded, names, lk>>

ReadEvent(s, p, e) ==
    The({ IF ~row.ok THEN row
          ELSE The({ IF ~event_name.ok THEN event_name
                     ELSE The({ IF ~raw.ok THEN raw
                                ELSE Ok(BankEvent(EventKey(event_name.val),
                                                  event_name.val, raw.val), raw.pos)
                                : raw \in {ReadStringAt(s, event_name.pos, row.val[2])} })
                     : event_name \in {ReadStringAt(s, row.pos, row.val[1])} })
          : row \in {ReadInts(s, p, e, 2)} })

EventRow ==
    /\ pc = "events" /\ idx < tbl.event_count
    /\ rowsRead' = Append(rowsRead, [table |-> "event", at |-> pos])
    /\ \E r \in {ReadEvent(stream, pos, endian)} :
          /\ pos' = r.pos
          /\ IF r.ok
             THEN /\ events' = PutEvent(events, r.val)
                  /\ names' = Append(names, r.val.name)
                  /\ idx' = idx + 1
                  /\ UNCHANGED <<pc, err>>
             ELSE /\ pc' = "failed"
                  /\ err' = ErrorOf(r)
                  /\ UNCHANGED <<events, names, idx>>
    /\ UNCHANGED <<stream, endian, header, tbl, locatePos, decoded, lk>>

SeekSources ==
    /\ pc = "events" /\ idx >= tbl.event_count
    /\ \E r \in {IF pos /= tbl.source_table_start
                 THEN StreamSeek(pos, tbl.source_table_start) ELSE Ok(<<>>, pos)} :
          /\ pos' = r.pos
          /\ IF r.ok THEN pc' = "sources" /\ err' = err
             ELSE pc' = "failed" /\ err' = ErrorOf(r)
    /\ idx' = 0
    /\ UNCHANGED <<stream, endian, header, events, tbl, locatePos, rowsRead, decoded, names, lk>>

ReadSourceUnscoped(s, p, e) ==
    The({ IF ~row.ok THEN row
          ELSE ReadAtNoRestore(row.pos, row.val[2],
                               ReadBankSource(s, row.val[2], e, row.val[1]))
          : row \in {ReadInts(s, p, e, 2)} })

ReadSource(s, p, e) ==
    The({ IF ~row.ok THEN row
          ELSE ReadAt(row.pos, row.val[2], ReadBankSource(s, row.val[2], e, row.val[1]))
          : row \in {ReadInts(s, p, e, 2)} })

SourceRow ==
    /\ pc = "sources" /\ idx < tbl.source_count
    /\ rowsRead' = Append(rowsRead, [table |-> "source", at |-> pos])
    /\ \E r \in {ReadSource(stream, pos, endian)} :
          /\ pos' = r.pos
          /\ IF r.ok
             THEN /\ events' = LinkSource(events, r.val)
                  /\ decoded' = Append(decoded, r.val)
                  /\ idx' = idx + 1
                  /\ UNCHANGED <<pc, err>>
             ELSE /\ pc' = "failed"
                  /\ err' = ErrorOf(r)
                  /\ UNCHANGED <<events, decoded, idx>>
    /\ UNCHANGED <<stream, endian, header, tbl, locatePos, names, lk>>

Finish ==
    /\ pc = "sources" /\ idx >= tbl.source_count
    /\ pc' = "done"
    /\ UNCHANGED <<stream, pos, endian, header, events, tbl, idx, err,
                   locatePos, rowsRead, decoded, names, lk>>

Next == Signature \/ Header \/ Locate \/ EventRow \/ SeekSources \/ SourceRow \/ Finish

Spec == Init /\ [][Next]_vars

(***************************************************************************)
(* The scoped string read on its own, one loop turn of readUntil per step: *)
(* readStringAt(offset) or readString() is called on an arbitrary short    *)
(* stream at an arbitrary cursor.  lk holds readAt's `origin`, the offset  *)
(* looked up and readUntil's `result`.                                     *)
(***************************************************************************)
ByteSample == {NUL, 65, 200}

ReaderInit ==
    /\ stream \in SeqsUpTo(ByteSample, MaxStreamLen)
    /\ pos \in 0..(MaxStreamLen + 1)
    /\ pc = "idle"
    /\ lk = NoLookup
    /\ err = NoError
    /\ endian = ">"
    /\ header = NoHeader
    /\ events = <<>>
    /\ tbl = NoTables
    /\ idx = 0
    /\ locatePos = -1
    /\ rowsRead = <<>>
    /\ decoded = <<>>
    /\ names = <<>>

EnterReadAt(offset) ==
    /\ lk' = [origin |-> pos, offset |-> offset, result |-> <<>>]
    /\ \E r \in {StreamSeek(pos, offset)} :
          /\ pos' = r.pos
          /\ IF r.ok THEN pc' = "reading" /\ err' = err
             ELSE pc' = "raised" /\ err' = ErrorOf(r)

CallReadStringAt ==
    /\ pc = "idle"
    /\ \E offset \in -1..(MaxStreamLen + 1) : EnterReadAt(offset)
    /\ UNCHANGED <<stream, endian, header, events, tbl, idx, locatePos, rowsRead, decoded, names>>

CallReadString ==
    /\ pc = "idle"
    /\ EnterReadAt(pos)
    /\ UNCHANGED <<stream, endian, header, events, tbl, idx, locatePos, rowsRead, decoded, names>>

ReadUntilStep ==
    /\ pc = "reading"
    /\ IF AtStopper(stream, pos, NUL)
       THEN pc' = "found" /\ UNCHANGED <<pos, lk, err>>
       ELSE \E r \in {AppendByte(stream, pos, lk.result)} :
               /\ pos' = r.pos
               /\ IF r.ok THEN lk' = [lk EXCEPT !.result = r.val] /\ UNCHANGED <<pc, err>>
                  ELSE pc' = "raised" /\ err' = ErrorOf(r) /\ lk' = lk
    /\ UNCHANGED <<stream, endian, header, events, tbl, idx, locatePos, rowsRead, decoded, names>>

ReadAtReturn ==
    /\ pc = "found"
    /\ pos' = StreamSeek(pos, lk.origin).pos
    /\ IF IsAscii(lk.result) THEN pc' = "returned" /\ err' = err
       ELSE pc' = "raised" /\ err' = [NoError EXCEPT !.kind = "UnicodeDecodeError"]
    /\ UNCHANGED <<stream, lk, endian, header, events, tbl, idx, locatePos, rowsRead, decoded, names>>

ReaderNext == CallReadStringAt \/ CallReadString \/ ReadUntilStep \/ ReadAtReturn

(***************************************************************************)
(* The interpreter runs the call to its end: a step that can be taken is   *)
(* taken.                                                                  *)
(***************************************************************************)
ReaderLive == ReaderInit /\ [][ReaderNext]_vars /\ WF_vars(ReaderNext)

(***************************************************************************)
(* The stepwise lookup ends as the operator ReadStringAt says it does.     *)
(***************************************************************************)
StepwiseAgrees ==
    pc \in {"returned", "raised"} =>
        \E r \in {ReadStringAt(stream, lk.origin, lk.offset)} :
            /\ r.ok = (pc = "returned")
            /\ r.pos = pos
            /\ r.ok => r.val = lk.result
            /\ ~r.ok => r.err = err.kind

(***************************************************************************)
(* Vocabulary of the properties.                                           *)
(***************************************************************************)
IntAt(at) == DecodeInt(SubSeq(stream, at + 1, at + 4), endian)

Linked(source, event) == \E j \in 1..Len(event.sources) : event.sources[j] = source

HasSlash(path) == \E k \in 1..Len(path) : path[k] = SLASH

EventRowsRead == {r \in 1..Len(rowsRead) : rowsRead[r].table = "event"}

SourceRowsRead == {r \in 1..Len(rowsRead) : rowsRead[r].table = "source"}

HasTerminator(s, offset) == offset >= 0 /\ \E k \in (offset + 1)..Len(s) : s[k] = NUL

(***************************************************************************)
(* C1: after process completes, a decoded source is in the sources of      *)
(* event e exactly when e.name is the directory component of the source's  *)
(* path; one event "sfx" and one source "sfx/boom" give one event "sfx"    *)
(* holding exactly that source.                                            *)
(***************************************************************************)
C1_LinkedIffNameIsDirectory ==
    pc = "done" =>
        /\ \A k \in 1..Len(events), j \in 1..Len(decoded) :
              Linked(decoded[j], events[k]) <=> events[k].name = Dirname(decoded[j].path)
        /\ (/\ names = << <<115, 102, 120>> >>
            /\ Len(decoded) = 1
            /\ decoded[1].path = <<115, 102, 120, 47, 98, 111, 111, 109>>)
           => (/\ Len(events) = 1
               /\ events[1].name = <<115, 102, 120>>
               /\ events[1].sources = decoded)

(***************************************************************************)
(* C2: after process completes, the events mapping is keyed by event name: *)
(* every key maps to the event of that name, every name of a table row is  *)
(* a key and maps to the event of the last row with that name, and there   *)
(* are as many entries as distinct names in the event table.               *)
(***************************************************************************)
C2_EventsKeyedByName ==
    pc = "done" =>
        /\ \A k \in 1..Len(events) : events[k].key = events[k].name
        /\ \A r \in 1..Len(names) :
              \E k \in 1..Len(events) : events[k].key = names[r] /\ events[k].name = names[r]
        /\ Len(events) = Cardinality({names[r] : r \in 1..Len(names)})

(***************************************************************************)
(* C3: a source record whose first int32 differs from the path_offset of   *)
(* the table row pointing at it makes readBankSource fail, with both       *)
(* values in the error, after that one read and nothing else; no source of *)
(* such a record is ever built, so every source has path_offset equal to   *)
(* the offset its record reports.                                          *)
(***************************************************************************)
C3_IntegrityCheckedFirst ==
    /\ \A j \in 1..Len(decoded) :
          decoded[j].path_offset = IntAt(decoded[j].source_offset)
    /\ \A k \in 1..Len(events) : \A j \in 1..Len(events[k].sources) :
          events[k].sources[j].path_offset = IntAt(events[k].sources[j].source_offset)
    /\ \A r \in SourceRowsRead :
          (/\ rowsRead[r].at + 8 <= Len(stream)
           /\ IntAt(rowsRead[r].at + 4) >= 0
           /\ IntAt(rowsRead[r].at + 4) + 4 <= Len(stream)
           /\ IntAt(IntAt(rowsRead[r].at + 4)) /= IntAt(rowsRead[r].at))
          => /\ pc = "failed"
             /\ r = Len(rowsRead)
             /\ err.kind = "OffsetDifference"
             /\ err.expected = IntAt(rowsRead[r].at)
             /\ err.got = IntAt(IntAt(rowsRead[r].at + 4))
             /\ err.calls = 1
             /\ pos = IntAt(rowsRead[r].at + 4) + 4
             /\ Len(decoded) = Cardinality(SourceRowsRead) - 1

C3_Witness ==
    /\ pc = "failed"
    /\ err.kind = "OffsetDifference"
    /\ err.got = err.expected + 1
    /\ Len(events) = 2

(***************************************************************************)
(* C4: every source built has a payload of exactly file_size bytes, the    *)
(* bytes of the stream from payload_offset on; a stream too short for      *)
(* that, or a negative file_size, fails the decode.                        *)
(***************************************************************************)
C4_PayloadHasFileSize ==
    \A j \in 1..Len(decoded) :
        /\ Len(decoded[j].data) = decoded[j].file_size
        /\ decoded[j].data = SubSeq(stream, decoded[j].data_offset + 1,
                                    decoded[j].data_offset + decoded[j].file_size)

(***************************************************************************)
(* C5: a scoped string read leaves the cursor where it was before the      *)
(* call, when it returns a string and when it fails alike.                 *)
(***************************************************************************)
C5_LookupRestoresCursor ==
    pc \in {"returned", "raised"} => pos = lk.origin

(***************************************************************************)
(* C6: decoding is all-or-nothing: when process fails, the model the       *)
(* parser exposes holds no header, event or linked source of the failed    *)
(* decode.                                                                 *)
(***************************************************************************)
C6_FailureLeavesNoModel ==
    pc = "failed" => header = NoHeader /\ events = <<>>

(***************************************************************************)
(* C7: a decoded source whose path has no '/' fails the decode in the      *)
(* linking step; it is linked to no event and the decode does not          *)
(* complete.                                                               *)
(***************************************************************************)
C7_PathWithoutSlashFails ==
    \A j \in 1..Len(decoded) :
        ~HasSlash(decoded[j].path) =>
            /\ pc = "failed"
            /\ \A k \in 1..Len(events) : ~Linked(decoded[j], events[k])

(***************************************************************************)
(* C8 as stated: the two groups of 5 int32 values are read with the cursor *)
(* at 0x38 (56), so that they occupy bytes 0x38..0x4B and 0x4C..0x5F.      *)
(***************************************************************************)
C8_LocatorReadAt0x38 ==
    /\ locatePos /= -1 => locatePos = 56
    /\ pc \in {"events", "sources", "done"} =>
          /\ tbl.event_table_start = IntAt(56 + 4)
          /\ tbl.source_table_start = IntAt(56 + 16)
          /\ tbl.event_count = IntAt(76 + 4)
          /\ tbl.source_count = IntAt(76 + 16)

(***************************************************************************)
(* C8 amended: the two groups of 5 int32 values are read with the cursor   *)
(* at 0x10 (16), where the header's three ints left it, the string reads   *)
(* of the header not having moved it; the groups occupy bytes 0x10..0x23   *)
(* and 0x24..0x37, and the table offsets and counts are the 2nd and 5th    *)
(* values of the groups.                                                   *)
(***************************************************************************)
C8_LocatorReadAt0x10 ==
    /\ pc = "locate" => pos = 16
    /\ locatePos /= -1 => locatePos = 16
    /\ pc \in {"events", "sources", "done"} =>
          /\ tbl.event_table_start = IntAt(16 + 4)
          /\ tbl.source_table_start = IntAt(16 + 16)
          /\ tbl.event_count = IntAt(36 + 4)
          /\ tbl.source_count = IntAt(36 + 16)

C8_Witness ==
    /\ pc = "events"
    /\ locatePos = 16
    /\ header.set /\ header.name = <<98, 107>>
    /\ tbl.event_count = 2 /\ tbl.source_count = 1

(***************************************************************************)
(* C9: a string lookup that finds no 0x00 from its offset to the end of    *)
(* the stream (the offset at or past the end included) ends, and ends by   *)
(* raising: it never returns a string, empty or truncated.                 *)
(***************************************************************************)
C9_UnterminatedLookupRaises ==
    /\ [](pc = "returned" => HasTerminator(stream, lk.offset))
    /\ ((pc = "reading" /\ ~HasTerminator(stream, lk.offset)) ~> (pc = "raised"))

C9_Witness ==
    /\ pc = "raised"
    /\ err.kind = "IndexError"
    /\ lk.offset >= Len(stream)

(***************************************************************************)
(* C10: while the decode has not failed, iteration i of the event loop     *)
(* starts with the cursor at event_table_offset + 8*i and iteration i of   *)
(* the source loop at source_table_offset + 8*i, whatever the lookups of   *)
(* earlier iterations visited; every row is read once, in table order.     *)
(***************************************************************************)
C10_TableCursorUndisturbed ==
    /\ (pc = "events" /\ idx < tbl.event_count) => pos = tbl.event_table_start + 8 * idx
    /\ (pc = "sources" /\ idx < tbl.source_count) => pos = tbl.source_table_start + 8 * idx
    /\ \A r \in EventRowsRead :
          r <= tbl.event_count /\ rowsRead[r].at = tbl.event_table_start + 8 * (r - 1)
    /\ \A r \in SourceRowsRead :
          /\ r - Cardinality(EventRowsRead) <= tbl.source_count
          /\ rowsRead[r].at =
                tbl.source_table_start + 8 * (r - Cardinality(EventRowsRead) - 1)
          /\ \A q \in EventRowsRead : q < r
    /\ pc \in {"sources", "done"} => Cardinality(EventRowsRead) = tbl.event_count
    /\ pc = "done" => Cardinality(SourceRowsRead) = tbl.source_count

C10_Witness ==
    /\ pc = "sources"
    /\ idx = 1
    /\ tbl.source_count = 2
    /\ Len(events) = 2
    /\ Len(decoded) = 1
    /\ pos = tbl.source_table_start + 8

====
